---- MODULE Spec2Model ----
(***************************************************************************)
(* State-machine model of DredgeApp (src/dredge_app.py): the position      *)
(* (USBL) table and its projection, the beacon selector, the two linked    *)
(* brush regions and the highlight they select, the annotation registry    *)
(* (self.annotations / self.annotation_id_counter), the export of the      *)
(* annotation metadata and of the tagged position table; and of the        *)
(* comment skipping and the region selection of the script                 *)
(* src/test_data_loading.py.                                               *)
(*                                                                         *)
(* Conventions                                                             *)
(*   - Python None is the empty tuple, a present value v is <<v>>.         *)
(*   - A DataFrame is [columns, rows, dt]: the set of column names, the    *)
(*     rows in file order (each a record keyed by column name) and the     *)
(*     dtype of the datetime column ("object" before pd.to_datetime,       *)
(*     "datetime64" after).                                                *)
(*   - Region bounds are numbers of seconds since the epoch; parsed        *)
(*     datetimes are instants in milliseconds since the epoch.             *)
(*   - Text typed by the user is a sequence of one-character strings.      *)
(***************************************************************************)
EXTENDS Integers, Sequences, FiniteSets, TLC

(***************************************************************************)
(* Bounds of the model                                                     *)
(***************************************************************************)
\* largest identity a create may hand out (caps annotation_id_counter)
MaxId == 3
\* largest identity a create may hand out where the position files, the
\* regions and the names range over all of their sets
MaxCreateId == 1
\* largest identity a create may hand out where exports are followed
MaxExportId == 2
\* largest number of rows in a position file; its rows are drawn from the
\* first MaxRows fixes of a track
MaxRows == 2
\* region bounds range over 0..MaxSec seconds
MaxSec == 2
\* largest number of lines in the text of a sensor file
MaxLines == 4

None == << >>
Some(v) == << v >>

(***************************************************************************)
(* Input data: position files                                              *)
(***************************************************************************)
\* the i-th fix of a track: one every half second from t = 1 s, moving
\* north-east inside UTM zone 18N
Fix(i) ==
  [datetime      |-> [ok |-> TRUE, t |-> 500 * (i + 1)],
   longitude_deg |-> i - 76,
   latitude_deg  |-> 40 + i]

\* all sequences of pairwise different fixes with at most n rows, in every
\* row order (a file is not sorted by time)
RECURSIVE FixSeqs(_)
FixSeqs(n) ==
  IF n = 0 THEN { << >> }
  ELSE LET shorter == FixSeqs(n - 1)
       IN  shorter \cup
           { q \in { Append(s, Fix(i)) :
                        s \in { q \in shorter : Len(q) = n - 1 },
                        i \in 1..MaxRows } :
               \A j \in 1..(Len(q) - 1) : q[j] # q[Len(q)] }

PositionColumns == {"datetime", "longitude_deg", "latitude_deg"}

\* well-formed position files (the one with no rows has only the header)
GoodUsblFiles ==
  { [readable |-> TRUE, columns |-> PositionColumns, rows |-> s] :
      s \in FixSeqs(MaxRows) }

\* a file pd.read_csv cannot read at all
UnreadableFile ==
  [readable |-> FALSE, columns |-> {}, rows |-> << >>]

\* a file whose datetime column holds a value pd.to_datetime rejects
JunkDatetimeFile ==
  [readable |-> TRUE, columns |-> PositionColumns,
   rows |-> << [datetime |-> [ok |-> FALSE, t |-> 0],
                longitude_deg |-> -75, latitude_deg |-> 41] >>]

\* a file without the longitude_deg column
NoLongitudeFile ==
  [readable |-> TRUE, columns |-> {"datetime", "latitude_deg"},
   rows |-> << [datetime |-> [ok |-> TRUE, t |-> 1000],
                latitude_deg |-> 41] >>]

UsblFiles ==
  GoodUsblFiles \cup {UnreadableFile, JunkDatetimeFile, NoLongitudeFile}

\* sensor files: one that cannot be read, one with a header only, one
\* with rows and a numeric channel, one with rows and none
SensorFiles ==
  { [readable |-> FALSE, nrows |-> 0, numeric |-> FALSE],
    [readable |-> TRUE, nrows |-> 0, numeric |-> TRUE],
    [readable |-> TRUE, nrows |-> 2, numeric |-> TRUE],
    [readable |-> TRUE, nrows |-> 2, numeric |-> FALSE] }

\* region bounds, as LinearRegionItem.getRegion returns them (min, max)
Regions == { r \in (0..MaxSec) \X (0..MaxSec) : r[1] <= r[2] }

\* text the user can type into the name field: blank ones and ones that
\* strip to a name
NameInputs == { << >>, <<" ">>, <<" ", "a", " ">> }

\* text the user can type into the notes field
NotesInputs == { <<"n", " ">> }

(***************************************************************************)
(* Pure functions                                                          *)
(***************************************************************************)
\* pd.read_csv: the raw table, datetime column still text
read_csv(file) ==
  [columns |-> file.columns, rows |-> file.rows, dt |-> "object"]

\* pd.to_datetime(df['datetime'], format='mixed', utc=True) raises on a
\* missing column or on a value it cannot parse
to_datetime_raises(df) ==
  \/ "datetime" \notin df.columns
  \/ \E i \in DOMAIN df.rows : ~ df.rows[i].datetime.ok

\* ... and otherwise replaces every text by the instant it denotes
to_datetime(df) ==
  [df EXCEPT !.rows = [i \in DOMAIN df.rows |->
                         [df.rows[i] EXCEPT !.datetime = @.t]],
             !.dt = "datetime64"]

\* pd.Timestamp(x, unit='s', tz='UTC'): seconds since the epoch to instant
Timestamp(seconds) == seconds * 1000

\* Python int(n / d) for d > 0: truncation toward zero
IntTrunc(n, d) == IF n >= 0 THEN n \div d ELSE - ((- n) \div d)

\* utm_zone = int((lon + 180) / 6) + 1
UtmZone(lon) == IntTrunc(lon + 180, 6) + 1

\* variant: the equator itself counts as south
Hemisphere_positive(lat) == IF lat > 0 THEN "north" ELSE "south"

\* hemisphere = 'north' if lat >= 0 else 'south'
Hemisphere(lat) == IF lat >= 0 THEN "north" ELSE "south"

\* Transformer.transform for the zone's transverse Mercator, to the first
\* order in the distance from the central meridian, in kilometres: false
\* easting 500 km, false northing 10000 km in the southern hemisphere
Transform(lon, lat, zone, hemisphere) ==
  [easting  |-> 500 + 111 * (lon - (6 * zone - 183)),
   northing |-> IF hemisphere = "north" THEN 111 * lat
                ELSE 10000 + 111 * lat]

\* convert_to_utm raises on df[...] of a missing column (KeyError) and on
\* .iloc[0] of a table with no rows (IndexError)
convert_to_utm_raises(df) ==
  \/ "longitude_deg" \notin df.columns
  \/ Len(df.rows) = 0
  \/ "latitude_deg" \notin df.columns

\* variant: the zone is stored as soon as the longitude is read
utm_zone_when_raised_early(df, zone) ==
  IF "longitude_deg" \in df.columns /\ Len(df.rows) > 0
    THEN << UtmZone(df.rows[1].longitude_deg) >>
  ELSE zone

\* self.utm_zone when convert_to_utm raises: longitude and latitude are
\* both read before self.utm_zone is assigned, so it is still the one the
\* handler found
utm_zone_when_raised(df, zone) == zone

\* the zone convert_to_utm stores: that of the first row
convert_to_utm_zone(df) == UtmZone(df.rows[1].longitude_deg)

\* f"EPSG:326{utm_zone:02d}" in the north and f"EPSG:327{utm_zone:02d}" in
\* the south, as the number the digits spell (zone below 100)
Epsg(zone, hemisphere) ==
  (IF hemisphere = "north" THEN 32600 ELSE 32700) + zone

\* the CRS of the transformer convert_to_utm stores: zone of the first
\* row's longitude, hemisphere of the first row's latitude
convert_to_utm_crs(df) ==
  Epsg(convert_to_utm_zone(df), Hemisphere(df.rows[1].latitude_deg))

\* variant: every row transformed for the zone and hemisphere it lies in
convert_to_utm_per_row(df) ==
  [df EXCEPT
     !.columns = @ \cup {"easting", "northing"},
     !.rows = [i \in DOMAIN df.rows |->
                 df.rows[i] @@
                 Transform(df.rows[i].longitude_deg,
                           df.rows[i].latitude_deg,
                           UtmZone(df.rows[i].longitude_deg),
                           Hemisphere(df.rows[i].latitude_deg))]]

\* the table convert_to_utm leaves: every row transformed with the one
\* transformer built from the first row
convert_to_utm(df) ==
  LET zone == convert_to_utm_zone(df)
      hemisphere == Hemisphere(df.rows[1].latitude_deg)
  IN  [df EXCEPT
         !.columns = @ \cup {"easting", "northing"},
         !.rows = [i \in DOMAIN df.rows |->
                     df.rows[i] @@
                     Transform(df.rows[i].longitude_deg,
                               df.rows[i].latitude_deg, zone, hemisphere)]]

\* str.strip(): drop leading and trailing white space
RECURSIVE lstrip(_)
lstrip(s) ==
  IF s # << >> /\ Head(s) = " " THEN lstrip(Tail(s)) ELSE s

RECURSIVE rstrip(_)
rstrip(s) ==
  IF s # << >> /\ s[Len(s)] = " " THEN rstrip(SubSeq(s, 1, Len(s) - 1))
  ELSE s

\* variant: the text is taken as typed
strip_not_applied(s) == s

strip(s) == rstrip(lstrip(s))

\* df[(df['datetime'] >= min_dt) & (df['datetime'] <= max_dt)]: the rows
\* inside the window, in the order the table has them
\* variant: the upper bound is not tested
InRange_no_upper(row, min_dt, max_dt) == row.datetime >= min_dt

\* variant: the lower bound is exclusive
InRange_open_start(row, min_dt, max_dt) ==
  row.datetime > min_dt /\ row.datetime <= max_dt

\* variant: the upper bound is exclusive
InRange_open_end(row, min_dt, max_dt) ==
  row.datetime >= min_dt /\ row.datetime < max_dt

InRange(row, min_dt, max_dt) ==
  row.datetime >= min_dt /\ row.datetime <= max_dt

\* variant: rows sitting on a bound of the window are left out
select_time_range_strict(df, min_dt, max_dt) ==
  SelectSeq(df.rows,
            LAMBDA row : row.datetime > min_dt /\ row.datetime < max_dt)

select_time_range(df, min_dt, max_dt) ==
  SelectSeq(df.rows, LAMBDA row : InRange(row, min_dt, max_dt))

\* df['datetime'] >= min_dt raises KeyError without the column and
\* TypeError while the column still holds text
compare_raises(df) ==
  \/ "datetime" \notin df.columns
  \/ df.dt = "object" /\ Len(df.rows) > 0

\* Series.get(key, None) on a row
row_get(row, key) ==
  IF key \in DOMAIN row THEN Some(row[key]) ELSE None

(***************************************************************************)
(* The beacon selector                                                     *)
(*                                                                         *)
(* A value of the beacon_name column is [dtype, text]: what read_csv made  *)
(* of the cell ("object" for a string, "int64" for a number) and the       *)
(* characters that print it.                                               *)
(***************************************************************************)
\* the item the selector is built with, and the one load_usbl_data puts
\* first
AllBeacons == << "A", "l", "l", " ", "B", "e", "a", "c", "o", "n", "s" >>

\* str(n) for a count
Digits == << "0", "1", "2", "3", "4", "5", "6", "7", "8", "9" >>
str_int(n) ==
  IF n < 10 THEN << Digits[n + 1] >>
  ELSE << Digits[(n \div 10) + 1], Digits[(n % 10) + 1] >>

\* df['beacon_name'].unique(): the values in order of first appearance
RECURSIVE unique(_)
unique(values) ==
  IF values = << >> THEN << >>
  ELSE LET before == unique(SubSeq(values, 1, Len(values) - 1))
           last == values[Len(values)]
       IN  IF \E k \in DOMAIN before : before[k] = last THEN before
           ELSE Append(before, last)

beacon_column(df) == [i \in DOMAIN df.rows |-> df.rows[i].beacon_name]

\* (df['beacon_name'] == beacon).sum() for a value of the column
beacon_count(df, beacon) ==
  Cardinality({ i \in DOMAIN df.rows : df.rows[i].beacon_name = beacon })

\* f"{beacon} ({count})"
format_item(beacon, count) ==
  beacon.text \o << " ", "(" >> \o str_int(count) \o << ")" >>

\* the items load_usbl_data fills the selector with
beacon_items(df) ==
  LET beacons == unique(beacon_column(df))
  IN  << AllBeacons >> \o
      [k \in DOMAIN beacons |->
         format_item(beacons[k], beacon_count(df, beacons[k]))]

\* selected_beacon.split(' (')[0]: the text before the first " ("
split_head(text) ==
  LET hits == { i \in 1..(Len(text) - 1) :
                  text[i] = " " /\ text[i + 1] = "(" }
  IN  IF hits = {} THEN text
      ELSE SubSeq(text, 1, (CHOOSE i \in hits : \A j \in hits : i <= j) - 1)

\* Series == str, element by element: a number never equals a string
eq_str(value, s) == value.dtype = "object" /\ value.text = s

\* the beacon filter of plot_location_data and on_region_changed: is row
\* kept under the selector's current text?
beacon_keeps(df, row, selected_beacon) ==
  \/ selected_beacon = AllBeacons
  \/ "beacon_name" \notin df.columns
  \/ eq_str(row.beacon_name, split_head(selected_beacon))

\* the row labels (1-based here) the mask of on_region_changed keeps, in
\* table order
RECURSIVE labels_where(_, _, _)
labels_where(rows, keep(_), k) ==
  IF k > Len(rows) THEN << >>
  ELSE (IF keep(rows[k]) THEN << k >> ELSE << >>)
       \o labels_where(rows, keep, k + 1)

selected_usbl_labels(df, min_dt, max_dt, selected_beacon) ==
  labels_where(df.rows,
               LAMBDA row : /\ InRange(row, min_dt, max_dt)
                            /\ beacon_keeps(df, row, selected_beacon),
               1)

\* the labels plot_location_data plots
df_to_plot_labels(df, selected_beacon) ==
  labels_where(df.rows,
               LAMBDA row : beacon_keeps(df, row, selected_beacon), 1)

\* the spots handed to a scatter item, one per label in that order; a
\* spot is known by its 'data', the row label (its 'pos' is that row's
\* easting and northing)
spots(df, labels) == labels

(***************************************************************************)
(* State                                                                   *)
(***************************************************************************)
VARIABLES
  usbl_df,                \* self.usbl_df: None or Some(DataFrame)
  sensor_df,              \* self.sensor_df: None or Some([nrows,
                          \* numeric]), the number of rows and whether
                          \* there is a numeric column
  utm_zone,               \* self.utm_zone: None or Some(zone)
  utm_transformer,        \* self.utm_transformer: None or Some(EPSG code
                          \* of the CRS it projects to)
  beacon_selector,        \* self.beacon_selector: [items, currentIndex],
                          \* currentIndex counted from 1
  location_scatter,       \* spots of self.location_scatter
  location_selection_scatter,
                          \* spots of self.location_selection_scatter
  region_1,               \* bounds of self.region_1
  region_2,               \* bounds of self.region_2 (self.region)
  region_1_visible,       \* self.region_1.isVisible()
  region_2_visible,       \* self.region_2.isVisible()
  brush_mode_btn,         \* self.brush_mode_btn.isChecked()
  save_annotation_btn,    \* self.save_annotation_btn.isEnabled()
  annotations,            \* self.annotations
  annotation_id_counter,  \* self.annotation_id_counter
  annotations_list,       \* items of self.annotations_list
  selected_row,           \* selected row of self.annotations_list, 0 = none
  export_annotated_btn,   \* self.export_annotated_btn.isEnabled()
  status,                 \* the message in the status bar
  handler,                \* the handler that ran last
  dialog,                 \* what the user entered in its input dialog:
                          \* None or Some([accepted, name, notes])
  feedback,               \* the message box it showed with the answer
                          \* given, or "Traceback" for an exception that
                          \* left it
  written,                \* the files it wrote: None or Some(files)
  synced,                 \* the sources _sync_regions ran for while the
                          \* handler ran, in call order
  recomputed,             \* how often on_region_changed ran meanwhile
  sensor_test,            \* what test_sensor_data found: None or
                          \* Some([lines, data_start, parsed]), the lines
                          \* of the file, the number it printed as
                          \* skipped, and the lines read_csv was left
  region_test,            \* what test_region_selection computed: None or
                          \* Some([region_start, region_end, usbl, sensor])
  assigned                \* history: every identity a create handed out

dataVars == << usbl_df, sensor_df, utm_zone, utm_transformer >>
plotVars == << beacon_selector, location_scatter,
               location_selection_scatter >>
regionVars == << region_1, region_2, region_1_visible, region_2_visible,
                 brush_mode_btn, save_annotation_btn >>
registryVars == << annotations, annotation_id_counter, assigned >>
listVars == << annotations_list, selected_row, export_annotated_btn >>

vars == << usbl_df, sensor_df, utm_zone, utm_transformer, beacon_selector,
           location_scatter, location_selection_scatter, region_1, region_2,
           region_1_visible, region_2_visible, brush_mode_btn,
           save_annotation_btn, annotations, annotation_id_counter,
           annotations_list, selected_row, export_annotated_btn, status,
           handler, dialog, feedback, written, synced, recomputed,
           sensor_test, region_test, assigned >>

\* DredgeApp.__init__ and init_ui
Init ==
  /\ usbl_df = None
  /\ sensor_df = None
  /\ utm_zone = None
  /\ utm_transformer = None
  /\ beacon_selector = [items |-> << AllBeacons >>, currentIndex |-> 1]
  /\ location_scatter = << >>
  /\ location_selection_scatter = << >>
  /\ region_1 = << 0, 1 >>
  /\ region_2 = << 0, 1 >>
  /\ region_1_visible = FALSE
  /\ region_2_visible = FALSE
  /\ brush_mode_btn = FALSE
  /\ save_annotation_btn = FALSE
  /\ annotations = << >>
  /\ annotation_id_counter = 1
  /\ annotations_list = << >>
  /\ selected_row = 0
  /\ export_annotated_btn = FALSE
  /\ status = "Ready - Load data files to begin"
  /\ handler = "__init__"
  /\ dialog = None
  /\ feedback = ""
  /\ written = None
  /\ synced = << >>
  /\ recomputed = 0
  /\ sensor_test = None
  /\ region_test = None
  /\ assigned = {}

\* what a handler leaves behind for the user: its name, the box it showed,
\* the status bar message it set (status bar unchanged for "") and the
\* files it wrote
surfaced(name, box, message, files) ==
  /\ handler' = name
  /\ feedback' = box
  /\ status' = IF message = "" THEN status ELSE message
  /\ written' = files

\* a handler that moves no region and does not reach on_region_changed
no_region_signal ==
  /\ synced' = << >>
  /\ recomputed' = 0

\* self.beacon_selector.currentText()
currentText(selector) == selector.items[selector.currentIndex]

(***************************************************************************)
(* Region handling                                                         *)
(***************************************************************************)
\* on_region_changed recomputes the selection of self.region (region_2) for
\* the highlight and reports it in the status bar, unless a table is
\* missing or an exception leaves the slot
on_region_changed_status(udf, sdf) ==
  IF udf = None \/ sdf = None THEN "" ELSE "Selected USBL points"

on_region_changed_raises(udf, sdf, rgn, selected_beacon) ==
  /\ udf # None
  /\ sdf # None
  /\ \/ compare_raises(udf[1])
     \/ /\ Len(selected_usbl_labels(udf[1], Timestamp(rgn[1]),
                                    Timestamp(rgn[2]), selected_beacon)) > 0
        /\ "easting" \notin udf[1].columns

\* the spots on_region_changed leaves in location_selection_scatter:
\* those of the selected rows, or the ones it found (scatter) when it
\* returns early or raises
on_region_changed_spots(udf, sdf, rgn, selected_beacon, scatter) ==
  IF \/ udf = None
     \/ sdf = None
     \/ on_region_changed_raises(udf, sdf, rgn, selected_beacon)
    THEN scatter
  ELSE spots(udf[1],
             selected_usbl_labels(udf[1], Timestamp(rgn[1]),
                                  Timestamp(rgn[2]), selected_beacon))

\* LinearRegionItem.setRegion emits sigRegionChanged unless the bounds are
\* the ones it already has (one delivery of the signal per call)
setRegion_emits(current, rgn) == current # rgn

\* QObject.blockSignals(block): while blocked, a signal the object would
\* emit is dropped
\* variant: the call has no effect
blockSignals_ignored(block) == FALSE

blockSignals(block) == block

\* _sync_regions(source) with region_1 at r1 and region_2 at r2: the
\* bounds of the source are copied to the other region with that
\* region's signals blocked (a sigRegionChanged that got through would
\* run _sync_regions for the other region first), then on_region_changed
\* is called.  Gives the bounds left, the sources _sync_regions ran for
\* and the number of on_region_changed calls.
RECURSIVE sync_regions(_, _, _)
sync_regions(source, r1, r2) ==
  LET other == IF source = 1 THEN r2 ELSE r1
      mine == IF source = 1 THEN r1 ELSE r2
      emitted == setRegion_emits(other, mine) /\ ~ blockSignals(TRUE)
      nested == IF emitted
                  THEN sync_regions(IF source = 1 THEN 2 ELSE 1, mine, mine)
                ELSE [region_1 |-> mine, region_2 |-> mine,
                      synced |-> << >>, recomputed |-> 0]
  IN  [region_1 |-> nested.region_1,
       region_2 |-> nested.region_2,
       synced |-> << source >> \o nested.synced,
       recomputed |-> nested.recomputed + 1]

\* the user drags region `source` to rgn: sigRegionChanged runs
\* _sync_regions(source), which copies the bounds to the other region with
\* its signals blocked and then calls on_region_changed once
region_dragged(regions) ==
  \E source \in {1, 2}, rgn \in regions :
    LET moved == sync_regions(source,
                              IF source = 1 THEN rgn ELSE region_1,
                              IF source = 2 THEN rgn ELSE region_2)
        selected_beacon == currentText(beacon_selector)
    IN  /\ IF source = 1 THEN region_1_visible ELSE region_2_visible
        /\ setRegion_emits(IF source = 1 THEN region_1 ELSE region_2, rgn)
        /\ region_1' = moved.region_1
        /\ region_2' = moved.region_2
        /\ synced' = moved.synced
        /\ recomputed' = moved.recomputed
        /\ IF on_region_changed_raises(usbl_df, sensor_df, moved.region_2,
                                       selected_beacon)
             THEN surfaced("_sync_regions", "Traceback", "", None)
             ELSE surfaced("_sync_regions", "",
                           on_region_changed_status(usbl_df, sensor_df),
                           None)
        /\ location_selection_scatter' =
             on_region_changed_spots(usbl_df, sensor_df, moved.region_2,
                                     selected_beacon,
                                     location_selection_scatter)
        /\ dialog' = None
        /\ UNCHANGED << dataVars, beacon_selector, location_scatter,
                        region_1_visible, region_2_visible, brush_mode_btn,
                        save_annotation_btn, registryVars, listVars,
                        region_test,
                        sensor_test >>

\* variant: the highlight is left on the map
highlight_after_brush_off_kept(scatter) == scatter

\* self.location_selection_scatter.setData([]) when brush mode goes off
highlight_after_brush_off(scatter) == << >>

\* toggle_brush_mode(checked): the button is checkable, a click flips it.
\* view_region is the middle fifth of the x range the plot shows.
toggle_brush_mode(regions) ==
  \E view_region \in regions :
    LET checked == ~ brush_mode_btn
        show == checked /\ sensor_df # None /\ sensor_df[1].nrows > 0
        quiet(r1, r2) == [region_1 |-> r1, region_2 |-> r2,
                          synced |-> << >>, recomputed |-> 0]
        \* region_1.setRegion, then region_2.setRegion: one that changes
        \* the bounds runs _sync_regions and on_region_changed
        first == IF setRegion_emits(region_1, view_region)
                   THEN sync_regions(1, view_region, region_2)
                 ELSE quiet(region_1, region_2)
        second == IF setRegion_emits(first.region_2, view_region)
                    THEN sync_regions(2, first.region_1, view_region)
                  ELSE quiet(first.region_1, first.region_2)
        emits == first.recomputed + second.recomputed > 0
        selected_beacon == currentText(beacon_selector)
    IN  /\ brush_mode_btn' = checked
        /\ save_annotation_btn' = checked
        /\ IF show
             THEN /\ region_1' = second.region_1
                  /\ region_2' = second.region_2
                  /\ synced' = first.synced \o second.synced
                  /\ recomputed' = first.recomputed + second.recomputed
                  /\ region_1_visible' = TRUE
                  /\ region_2_visible' = TRUE
                  /\ location_selection_scatter' =
                       IF emits
                         THEN on_region_changed_spots(
                                usbl_df, sensor_df, view_region,
                                selected_beacon, location_selection_scatter)
                       ELSE location_selection_scatter
                  /\ IF ~ emits
                       THEN surfaced("toggle_brush_mode", "", "", None)
                     ELSE IF on_region_changed_raises(usbl_df, sensor_df,
                                                      view_region,
                                                      selected_beacon)
                       THEN surfaced("toggle_brush_mode", "Traceback", "",
                                     None)
                     ELSE surfaced("toggle_brush_mode", "",
                                   on_region_changed_status(usbl_df,
                                                            sensor_df),
                                   None)
             ELSE IF checked
               THEN /\ UNCHANGED << region_1, region_2, region_1_visible,
                                    region_2_visible,
                                    location_selection_scatter >>
                    /\ no_region_signal
                    /\ surfaced("toggle_brush_mode", "", "", None)
               ELSE /\ UNCHANGED << region_1, region_2 >>
                    /\ region_1_visible' = FALSE
                    /\ region_2_visible' = FALSE
                    /\ location_selection_scatter' =
                         highlight_after_brush_off(
                           location_selection_scatter)
                    /\ no_region_signal
                    /\ surfaced("toggle_brush_mode", "",
                                "Brush selection disabled", None)
        /\ dialog' = None
        /\ UNCHANGED << dataVars, beacon_selector, location_scatter,
                        registryVars, listVars, region_test,
                        sensor_test >>

(***************************************************************************)
(* Loading                                                                 *)
(***************************************************************************)
\* load_usbl_data with the file the user picked.  self.usbl_df is assigned
\* as soon as read_csv returns; an exception raised later is caught and
\* reported, and leaves the table as far as the load got.  A table with a
\* beacon_name column repopulates the selector: clear() and the first
\* addItem each emit currentTextChanged, so update_beacon_filter runs for
\* the text "" and then for "All Beacons", and with the region shown each
\* run calls on_region_changed.  The handler ends with
\* plot_location_data.
load_usbl_data(files) ==
  \E file \in files :
    LET raw == read_csv(file)
        parsed == to_datetime(raw)
        df == convert_to_utm(parsed)
        failed == "Error: Failed to load USBL data"
        repopulated == "beacon_name" \in raw.columns
        selector == IF repopulated
                      THEN [items |-> beacon_items(df), currentIndex |-> 1]
                    ELSE beacon_selector
        kept == /\ UNCHANGED << utm_transformer, plotVars >>
                /\ no_region_signal
                /\ surfaced("load_usbl_data", failed, "", None)
    IN  /\ IF ~ file.readable
             THEN /\ UNCHANGED << usbl_df, utm_zone >>
                  /\ kept
           ELSE IF to_datetime_raises(raw)
             THEN /\ usbl_df' = Some(raw)
                  /\ UNCHANGED utm_zone
                  /\ kept
           ELSE IF convert_to_utm_raises(parsed)
             THEN /\ usbl_df' = Some(parsed)
                  /\ utm_zone' = utm_zone_when_raised(parsed, utm_zone)
                  /\ kept
           ELSE /\ usbl_df' = Some(df)
                /\ utm_zone' = Some(convert_to_utm_zone(parsed))
                /\ utm_transformer' = Some(convert_to_utm_crs(parsed))
                /\ beacon_selector' = selector
                /\ location_scatter' =
                     spots(df, df_to_plot_labels(df, currentText(selector)))
                /\ location_selection_scatter' =
                     IF repopulated /\ region_2_visible
                       THEN on_region_changed_spots(
                              Some(df), sensor_df, region_2, AllBeacons,
                              << >>)
                     ELSE location_selection_scatter
                /\ synced' = << >>
                /\ recomputed' =
                     IF repopulated /\ region_2_visible THEN 2 ELSE 0
                /\ surfaced("load_usbl_data", "", "Loaded USBL data", None)
        /\ dialog' = None
        /\ UNCHANGED << sensor_df, regionVars, registryVars, listVars,
                        region_test,
                        sensor_test >>

\* load_sensor_data with the file the user picked.  self.sensor_df is
\* assigned when read_csv returns.  The handler then calls
\* self.update_timeseries_plot() without its argument when there is a
\* numeric column (TypeError), and otherwise reaches self.save_region_btn,
\* which does not exist (AttributeError): both are caught and reported.
load_sensor_data(files) ==
  \E file \in files :
    /\ IF ~ file.readable
         THEN /\ UNCHANGED sensor_df
              /\ surfaced("load_sensor_data",
                          "Error: Failed to load sensor data", "", None)
         ELSE /\ sensor_df' = Some([nrows |-> file.nrows,
                                    numeric |-> file.numeric])
              /\ surfaced("load_sensor_data",
                          "Error: Failed to load sensor data",
                          IF file.numeric THEN "" ELSE "Loaded sensor data",
                          None)
    /\ dialog' = None
    /\ no_region_signal
    /\ UNCHANGED << usbl_df, utm_zone, utm_transformer, plotVars,
                    regionVars, registryVars, listVars, region_test,
                    sensor_test >>

\* plot_location_data raises KeyError on row['easting'] when the table it
\* plots has rows and no projected coordinates
plot_location_data_raises(udf, selected_beacon) ==
  /\ udf # None
  /\ "easting" \notin udf[1].columns
  /\ Len(df_to_plot_labels(udf[1], selected_beacon)) > 0

\* update_beacon_filter: the user picks another item of the selector;
\* currentTextChanged runs plot_location_data and, with the region shown,
\* on_region_changed
update_beacon_filter ==
  \E index \in DOMAIN beacon_selector.items :
    LET selected_beacon == beacon_selector.items[index]
        recompute == region_2_visible
    IN  /\ index # beacon_selector.currentIndex
        /\ beacon_selector' = [beacon_selector EXCEPT !.currentIndex = index]
        /\ synced' = << >>
        /\ IF plot_location_data_raises(usbl_df, selected_beacon)
             THEN /\ UNCHANGED << location_scatter,
                                  location_selection_scatter >>
                  /\ recomputed' = 0
                  /\ surfaced("update_beacon_filter", "Traceback", "", None)
             ELSE /\ location_scatter' =
                       IF usbl_df = None THEN location_scatter
                       ELSE spots(usbl_df[1],
                                  df_to_plot_labels(usbl_df[1],
                                                    selected_beacon))
                  /\ recomputed' = IF recompute THEN 1 ELSE 0
                  /\ location_selection_scatter' =
                       IF recompute
                         THEN on_region_changed_spots(
                                usbl_df, sensor_df, region_2,
                                selected_beacon, location_selection_scatter)
                       ELSE location_selection_scatter
                  /\ IF recompute
                        /\ on_region_changed_raises(usbl_df, sensor_df,
                                                    region_2,
                                                    selected_beacon)
                       THEN surfaced("update_beacon_filter", "Traceback",
                                     "", None)
                     ELSE surfaced("update_beacon_filter", "",
                                   IF recompute
                                     THEN on_region_changed_status(
                                            usbl_df, sensor_df)
                                   ELSE "", None)
        /\ dialog' = None
        /\ UNCHANGED << dataVars, regionVars, registryVars, listVars,
                        region_test,
                        sensor_test >>

(***************************************************************************)
(* test_region_selection (src/test_data_loading.py)                        *)
(***************************************************************************)
\* Series.min() and Series.max() of a column with rows
series_min(times) ==
  CHOOSE t \in { times[i] : i \in DOMAIN times } :
    \A i \in DOMAIN times : t <= times[i]
series_max(times) ==
  CHOOSE t \in { times[i] : i \in DOMAIN times } :
    \A i \in DOMAIN times : times[i] <= t

\* time_min + pd.Timedelta(seconds=duration * fraction), in milliseconds,
\* for a fraction given in hundredths
timedelta_after(time_min, duration, hundredths) ==
  time_min + (duration * hundredths) \div 100

\* (df['datetime'] >= region_start) & (df['datetime'] <= region_end)
region_mask(times, region_start, region_end) ==
  [i \in DOMAIN times |->
     times[i] >= region_start /\ times[i] <= region_end]

\* the region the script takes (the middle tenth of the sensor table's
\* span; NaT, here None, for a sensor table without rows) and the two
\* tables with the region_test column it adds.  A comparison with NaT is
\* False.
region_selection(usbl_times, sensor_times) ==
  LET tagged(times, mask) ==
        [i \in DOMAIN times |->
           [datetime |-> times[i], region_test |-> mask[i]]]
      nothing(times) == [i \in DOMAIN times |-> FALSE]
  IN  IF sensor_times = << >>
        THEN [region_start |-> None, region_end |-> None,
              usbl |-> tagged(usbl_times, nothing(usbl_times)),
              sensor |-> tagged(sensor_times, nothing(sensor_times))]
      ELSE LET time_min == series_min(sensor_times)
               time_max == series_max(sensor_times)
               duration == time_max - time_min
               region_start == timedelta_after(time_min, duration, 45)
               region_end == timedelta_after(time_min, duration, 55)
           IN  [region_start |-> Some(region_start),
                region_end |-> Some(region_end),
                usbl |-> tagged(usbl_times,
                                region_mask(usbl_times, region_start,
                                            region_end)),
                sensor |-> tagged(sensor_times,
                                  region_mask(sensor_times, region_start,
                                              region_end))]

\* the script run on a position table and a sensor table
test_region_selection(usbl_tables, sensor_tables) ==
  \E usbl_times \in usbl_tables, sensor_times \in sensor_tables :
    /\ region_test' = Some(region_selection(usbl_times, sensor_times))
    /\ UNCHANGED << dataVars, plotVars, regionVars, registryVars, listVars,
                    status, handler, dialog, feedback, written, synced,
                    recomputed, sensor_test >>

(***************************************************************************)
(* test_sensor_data (src/test_data_loading.py) and the same loop of        *)
(* DredgeApp.load_sensor_data: where the data of a sensor file start       *)
(***************************************************************************)
\* line.startswith('#'); a line is the sequence of its characters
startswith_hash(line) == line # << >> /\ Head(line) = "#"

\* for i, line in enumerate(lines): if not line.startswith('#'): return i
\* (i counted from 0, lines[i..] still to look at); None when the loop
\* ends without a break
RECURSIVE first_data_line(_, _)
first_data_line(lines, i) ==
  IF lines = << >> THEN None
  ELSE IF ~ startswith_hash(Head(lines)) THEN Some(i)
  ELSE first_data_line(Tail(lines), i + 1)

\* data_start = 0, set to i at the break only
data_start(lines) ==
  IF first_data_line(lines, 0) = None THEN 0
  ELSE first_data_line(lines, 0)[1]

\* pd.read_csv(filepath, skiprows=n): the lines it is left to parse
skiprows(lines, n) == SubSeq(lines, n + 1, Len(lines))

\* test_sensor_data up to its read_csv, on the lines of the file given
test_sensor_data(files) ==
  \E lines \in files :
    /\ sensor_test' = Some([lines |-> lines,
                            data_start |-> data_start(lines),
                            parsed |-> skiprows(lines, data_start(lines))])
    /\ UNCHANGED << dataVars, plotVars, regionVars, registryVars, listVars,
                    status, handler, dialog, feedback, written, synced,
                    recomputed, region_test >>

(***************************************************************************)
(* Annotation registry                                                     *)
(***************************************************************************)
\* variant: the newest annotation is listed first
list_items_newest_first(anns) ==
  [i \in DOMAIN anns |->
     << anns[Len(anns) + 1 - i].annotation_id,
        anns[Len(anns) + 1 - i].annotation_name,
        anns[Len(anns) + 1 - i].num_usbl_points >>]

\* refresh_annotations_list: one item per annotation, in list order, with
\* the text "[id] name (n pts)"
list_items(anns) ==
  [i \in DOMAIN anns |->
     << anns[i].annotation_id, anns[i].annotation_name,
        anns[i].num_usbl_points >>]

\* selected_usbl.iloc[0] and selected_usbl.iloc[-1]
start_point(selected_usbl) == selected_usbl[1]
end_point(selected_usbl) == selected_usbl[Len(selected_usbl)]

\* the identity a create stores, and the counter it leaves
annotation_id(counter) == counter

\* variant: the counter is not advanced
next_counter_stuck(counter) == counter

next_counter(counter) == counter + 1

\* the annotation dictionary save_annotation builds
new_annotation(counter, name, notes, min_dt, max_dt, selected_usbl, zone) ==
  [annotation_id   |-> annotation_id(counter),
   annotation_name |-> name,
   start_datetime  |-> min_dt,
   end_datetime    |-> max_dt,
   start_lat       |-> row_get(start_point(selected_usbl), "latitude"),
   start_lon       |-> row_get(start_point(selected_usbl), "longitude"),
   end_lat         |-> row_get(end_point(selected_usbl), "latitude"),
   end_lon         |-> row_get(end_point(selected_usbl), "longitude"),
   start_easting   |-> start_point(selected_usbl).easting,
   start_northing  |-> start_point(selected_usbl).northing,
   end_easting     |-> end_point(selected_usbl).easting,
   end_northing    |-> end_point(selected_usbl).northing,
   utm_zone        |-> zone,
   num_usbl_points |-> Len(selected_usbl),
   notes           |-> notes]

\* variant: the new annotation goes to the front of the list
append_front(anns, ann) == << ann >> \o anns

\* list.append
append(anns, ann) == Append(anns, ann)

\* variant: the rows of the chosen beacon only, as the highlight has them
annotation_rows_filtered(df, min_dt, max_dt, selected_beacon) ==
  SelectSeq(df.rows,
            LAMBDA row : /\ InRange(row, min_dt, max_dt)
                         /\ beacon_keeps(df, row, selected_beacon))

\* selected_usbl of save_annotation: its mask is the time range alone,
\* the text of the beacon selector is not read
annotation_rows(df, min_dt, max_dt, selected_beacon) ==
  select_time_range(df, min_dt, max_dt)

\* the message boxes of save_annotation
NoDataLoaded == "No Data: Please load both USBL and sensor data first."
NoSelection ==
  "No Selection: Please enable brush mode and select a region first."
NoPointsInRange == "No Data: No USBL points found in selected time range."
InvalidName == "Invalid Name: Please enter an annotation name."

\* save_annotation: the user clicks "Save Annotation" and, when the dialog
\* comes up, types name_text and notes_text and accepts or cancels.
\* max_id caps the counter.
save_annotation(names, notes, max_id) ==
  \E accepted \in BOOLEAN, name_text \in names, notes_text \in notes :
    LET min_dt == Timestamp(region_2[1])
        max_dt == Timestamp(region_2[2])
        selected_usbl == annotation_rows(usbl_df[1], min_dt, max_dt,
                                         currentText(beacon_selector))
        name == strip(name_text)
        entered == Some([accepted |-> accepted, name |-> name_text,
                         notes |-> notes_text])
        rejected(box, input) ==
          /\ surfaced("save_annotation", box, "", None)
          /\ dialog' = input
          /\ UNCHANGED << registryVars, listVars >>
    IN  /\ IF usbl_df = None \/ sensor_df = None
             THEN rejected(NoDataLoaded, None)
           ELSE IF ~ region_2_visible
             THEN rejected(NoSelection, None)
           ELSE IF compare_raises(usbl_df[1])
             THEN rejected("Traceback", None)
           ELSE IF Len(selected_usbl) = 0
             THEN rejected(NoPointsInRange, None)
           ELSE IF ~ accepted
             THEN rejected("", entered)
           ELSE IF name = << >>
             THEN rejected(InvalidName, entered)
           ELSE IF "easting" \notin usbl_df[1].columns
             THEN rejected("Traceback", entered)
           ELSE /\ annotation_id_counter <= max_id
                /\ annotations' =
                     append(annotations,
                            new_annotation(annotation_id_counter, name,
                                           strip(notes_text), min_dt, max_dt,
                                           selected_usbl, utm_zone))
                /\ annotation_id_counter' =
                     next_counter(annotation_id_counter)
                /\ assigned' =
                     assigned \cup {annotation_id(annotation_id_counter)}
                /\ annotations_list' = list_items(annotations')
                /\ selected_row' = 0
                /\ export_annotated_btn' = TRUE
                /\ surfaced("save_annotation", "", "Annotation saved", None)
                /\ dialog' = entered
        /\ no_region_signal
        /\ UNCHANGED << dataVars, plotVars, regionVars, region_test,
                        sensor_test >>

\* the user clicks a row of the annotations list
select_annotation ==
  \E row \in DOMAIN annotations_list :
    /\ row # selected_row
    /\ selected_row' = row
    /\ surfaced("on_annotation_selected", "", "", None)
    /\ dialog' = None
    /\ no_region_signal
    /\ UNCHANGED << dataVars, plotVars, regionVars, registryVars,
                    annotations_list, export_annotated_btn, region_test,
                    sensor_test >>

\* variant: list.pop() without the index removes the last element
pop_last(anns, row) == SubSeq(anns, 1, Len(anns) - 1)

\* variant: the annotations after the removed one take the identity of
\* their new place
pop_renumbering(anns, row) ==
  [i \in 1..(Len(anns) - 1) |->
     IF i < row THEN anns[i]
     ELSE [anns[i + 1] EXCEPT !.annotation_id = anns[i].annotation_id]]

\* list.pop(i) for a 0-based i, given as the 1-based row
pop(anns, row) ==
  SubSeq(anns, 1, row - 1) \o SubSeq(anns, row + 1, Len(anns))

\* the counter delete_annotation leaves, and the one clear_annotations
\* leaves: neither assigns self.annotation_id_counter
\* variant: delete hands the last identity back
counter_after_delete_reuses(counter) == counter - 1

counter_after_delete(counter) == counter

\* variant: clear restarts the numbering
counter_after_clear_resets(counter) == 1

counter_after_clear(counter) == counter

\* variant: the export button is left as it was
export_enabled_after_delete_kept(anns, enabled) == enabled

\* if len(self.annotations) == 0: self.export_annotated_btn.setEnabled(
\* False), with the list as the pop left it
export_enabled_after_delete(anns, enabled) ==
  IF Len(anns) = 0 THEN FALSE ELSE enabled

\* delete_annotation: the user clicks "Delete" and answers the question
delete_annotation ==
  \E reply \in {"Yes", "No"} :
    /\ IF selected_row = 0
         THEN /\ UNCHANGED << registryVars, listVars >>
              /\ surfaced("delete_annotation", "", "", None)
       ELSE IF reply = "No"
         THEN /\ UNCHANGED << registryVars, listVars >>
              /\ surfaced("delete_annotation", "Delete Annotation? No", "",
                          None)
       ELSE /\ annotations' = pop(annotations, selected_row)
            /\ annotations_list' = list_items(annotations')
            /\ selected_row' = 0
            /\ export_annotated_btn' =
                 export_enabled_after_delete(annotations',
                                             export_annotated_btn)
            /\ annotation_id_counter' =
                 counter_after_delete(annotation_id_counter)
            /\ UNCHANGED assigned
            /\ surfaced("delete_annotation", "Delete Annotation? Yes",
                        "Annotation deleted", None)
    /\ dialog' = None
    /\ no_region_signal
    /\ UNCHANGED << dataVars, plotVars, regionVars, region_test,
                    sensor_test >>

\* clear_annotations: the user clicks "Clear All" and answers the question
clear_annotations ==
  \E reply \in {"Yes", "No"} :
    /\ IF Len(annotations) = 0
         THEN /\ UNCHANGED << registryVars, listVars >>
              /\ surfaced("clear_annotations", "", "", None)
       ELSE IF reply = "No"
         THEN /\ UNCHANGED << registryVars, listVars >>
              /\ surfaced("clear_annotations", "Clear All Annotations? No",
                          "", None)
       ELSE /\ annotations' = << >>
            /\ annotations_list' = list_items(annotations')
            /\ selected_row' = 0
            /\ export_annotated_btn' = FALSE
            /\ annotation_id_counter' =
                 counter_after_clear(annotation_id_counter)
            /\ UNCHANGED assigned
            /\ surfaced("clear_annotations", "Clear All Annotations? Yes",
                        "All annotations cleared", None)
    /\ dialog' = None
    /\ no_region_signal
    /\ UNCHANGED << dataVars, plotVars, regionVars, region_test,
                    sensor_test >>

(***************************************************************************)
(* Export                                                                  *)
(***************************************************************************)
\* pd.DataFrame(self.annotations): one row per dictionary, in list order
annotations_df(anns) == [i \in DOMAIN anns |-> anns[i]]

\* the names of the position table's columns as text, the form in which an
\* annotation name is held
ColumnText ==
  [datetime      |-> << "d", "a", "t", "e", "t", "i", "m", "e" >>,
   longitude_deg |-> << "l", "o", "n", "g", "i", "t", "u", "d", "e", "_",
                        "d", "e", "g" >>,
   latitude_deg  |-> << "l", "a", "t", "i", "t", "u", "d", "e", "_", "d",
                        "e", "g" >>,
   easting       |-> << "e", "a", "s", "t", "i", "n", "g" >>,
   northing      |-> << "n", "o", "r", "t", "h", "i", "n", "g" >>,
   beacon_name   |-> << "b", "e", "a", "c", "o", "n", "_", "n", "a", "m",
                        "e" >>]

\* usbl_export: the table by column, [columns, dt]: the values of every
\* column under its name as text, and the dtype of the datetime column
\* ("bool" once a mask was assigned to it)
usbl_export_frame(df) ==
  [columns |->
     [n \in { ColumnText[c] : c \in df.columns } |->
        [i \in DOMAIN df.rows |->
           df.rows[i][CHOOSE c \in df.columns : ColumnText[c] = n]]],
   dt |-> df.dt,
   nrows |-> Len(df.rows)]

\* usbl_export['datetime'] >= ann['start_datetime'] raises KeyError without
\* the column and TypeError while the column holds text or booleans
mask_raises(frame) ==
  \/ ColumnText.datetime \notin DOMAIN frame.columns
  \/ frame.dt = "object" /\ frame.nrows > 0
  \/ frame.dt = "bool"

\* the mask of one annotation over the rows of the table
\* variant: the end of the annotation is excluded
annotation_mask_open_end(rows, ann) ==
  [i \in DOMAIN rows |->
     /\ rows[i].datetime >= ann.start_datetime
     /\ rows[i].datetime < ann.end_datetime]

annotation_mask(rows, ann) ==
  [i \in DOMAIN rows |->
     InRange(rows[i], ann.start_datetime, ann.end_datetime)]

\* usbl_export[col_name] = mask: the column of that name is replaced, or
\* added when there is none
setitem(frame, col_name, mask) ==
  [frame EXCEPT
     !.columns = [n \in DOMAIN frame.columns \cup {col_name} |->
                    IF n = col_name THEN mask ELSE frame.columns[n]],
     !.dt = IF col_name = ColumnText.datetime THEN "bool" ELSE @]

\* the loop over self.annotations, from the k-th annotation on: the frame
\* as far as the loop got and whether a comparison raised
RECURSIVE tag_columns(_, _, _)
tag_columns(frame, anns, k) ==
  IF k > Len(anns) THEN [raised |-> FALSE, frame |-> frame]
  ELSE IF mask_raises(frame) THEN [raised |-> TRUE, frame |-> frame]
  ELSE LET col_name == anns[k].annotation_name
           datetimes == frame.columns[ColumnText.datetime]
           mask == annotation_mask(
                     [i \in DOMAIN datetimes |-> [datetime |-> datetimes[i]]],
                     anns[k])
       IN  tag_columns(setitem(frame, col_name, mask), anns, k + 1)

\* self.usbl_df after the loop: usbl_export is self.usbl_df.copy(), so the
\* loaded table is as it was
\* variant: usbl_export is self.usbl_df itself and the loop tags the
\* loaded table
usbl_df_tagged_in_place(df, frame) ==
  [df EXCEPT !.columns = @ \cup {"annotation"}, !.dt = frame.dt]

usbl_df_after_export(df, frame) == df

\* the directories the user can pick: none (cancel), a directory, or a
\* path that is not a directory
OutputDirs == {"", "out", "not-a-directory"}

isdir(path) == path = "out"

\* the message boxes of export_annotated_data
NoAnnotations ==
  "No Annotations: Please save at least one annotation before exporting."
NoUsblData == "No Data: No USBL data loaded."
ExportError == "Export Error: Failed to export"
ExportComplete == "Export Complete"

\* len(self.annotations) == 0
\* variant: the test is "self.annotations is None", which never holds
no_annotations_is_none(anns) == FALSE

no_annotations(anns) == Len(anns) = 0

\* export_annotated_data
export_annotated_data ==
  \E output_dir \in OutputDirs :
    LET tagged == tag_columns(usbl_export_frame(usbl_df[1]), annotations, 1)
    IN  /\ IF no_annotations(annotations)
             THEN /\ surfaced("export_annotated_data", NoAnnotations, "",
                              None)
                  /\ UNCHANGED usbl_df
           ELSE IF usbl_df = None
             THEN /\ surfaced("export_annotated_data", NoUsblData, "", None)
                  /\ UNCHANGED usbl_df
           ELSE IF output_dir = ""
             THEN /\ surfaced("export_annotated_data", "", "", None)
                  /\ UNCHANGED usbl_df
           ELSE IF ~ isdir(output_dir)
             THEN /\ surfaced("export_annotated_data", ExportError, "", None)
                  /\ UNCHANGED usbl_df
           ELSE IF tagged.raised
             THEN \* annotations_metadata.csv is on disk before a mask
                  \* raises
                  /\ surfaced("export_annotated_data", ExportError, "",
                              Some([metadata |-> annotations_df(annotations)]))
                  /\ usbl_df' = Some(usbl_df_after_export(usbl_df[1],
                                                          tagged.frame))
           ELSE /\ surfaced("export_annotated_data", ExportComplete,
                            "Exported annotated data",
                            Some([metadata |-> annotations_df(annotations),
                                  usbl |-> tagged.frame.columns]))
                /\ usbl_df' = Some(usbl_df_after_export(usbl_df[1],
                                                        tagged.frame))
        /\ dialog' = None
        /\ no_region_signal
        /\ UNCHANGED << sensor_df, utm_zone, utm_transformer, plotVars,
                        regionVars, registryVars, listVars, region_test,
                        sensor_test >>

(***************************************************************************)
(* Specifications                                                          *)
(***************************************************************************)
\* SpecRegistry: the life of the registry (create, select, delete, clear,
\* export) up to identity MaxId, over one unsorted position file, one
\* sensor file, two regions and two names
RegistryUsblFiles ==
  { [readable |-> TRUE, columns |-> PositionColumns,
     rows |-> << Fix(2), Fix(1) >>] }

RegistrySensorFiles == { [readable |-> TRUE, nrows |-> 2, numeric |-> TRUE] }

RegistryRegions == { << 0, 2 >>, << 1, 1 >> }

RegistryNames == { <<"a">>, <<"b">> }

NextRegistry ==
  \/ load_usbl_data(RegistryUsblFiles)
  \/ load_sensor_data(RegistrySensorFiles)
  \/ toggle_brush_mode(RegistryRegions)
  \/ region_dragged(RegistryRegions)
  \/ save_annotation(RegistryNames, NotesInputs, MaxId)
  \/ select_annotation
  \/ delete_annotation
  \/ clear_annotations
  \/ export_annotated_data

SpecRegistry == Init /\ [][NextRegistry]_vars

\* SpecCreate: creation up to identity MaxCreateId over every position
\* file, sensor file, region and name
NextCreate ==
  \/ load_usbl_data(UsblFiles)
  \/ load_sensor_data(SensorFiles)
  \/ toggle_brush_mode(Regions)
  \/ region_dragged(Regions)
  \/ save_annotation(NameInputs, NotesInputs, MaxCreateId)

SpecCreate == Init /\ [][NextCreate]_vars

\* SpecSelect: the selection (regions, beacon filter, the script's region)
\* with no annotation, over position files with and without a beacon
\* column and every region
Named(text) == [dtype |-> "object", text |-> text]
Numbered(text) == [dtype |-> "int64", text |-> text]

BeaconFile(first, second) ==
  [readable |-> TRUE, columns |-> PositionColumns \cup {"beacon_name"},
   rows |-> << Fix(1) @@ [beacon_name |-> first],
               Fix(2) @@ [beacon_name |-> second] >>]

SelectUsblFiles ==
  RegistryUsblFiles \cup
  { BeaconFile(Named(<<"A">>), Named(<<"B">>)),
    BeaconFile(Named(<<"R", " ", "(", "p", ")">>), Named(<<"R">>)),
    BeaconFile(Numbered(<<"7">>), Numbered(<<"7">>)) }

\* the datetime columns the script is run on
ScriptUsblTables == { << 1000 >>, << 1500, 1000 >> }

ScriptSensorTables ==
  { << >>, << 1000 >>, << 100, 1000, 1200, 2100 >>,
    << 2400, 1300, 1500, 400 >> }

NextSelect ==
  \/ load_usbl_data(SelectUsblFiles)
  \/ load_sensor_data(RegistrySensorFiles)
  \/ toggle_brush_mode(Regions)
  \/ region_dragged(Regions)
  \/ update_beacon_filter
  \/ test_region_selection(ScriptUsblTables, ScriptSensorTables)

SpecSelect == Init /\ [][NextSelect]_vars

\* SpecExport: create, select, delete, clear and export up to identity
\* MaxExportId, with the beacon filter, over a position file of two beacons
\* that is not in time order, two overlapping regions and two names
BeaconTrack ==
  [readable |-> TRUE, columns |-> PositionColumns \cup {"beacon_name"},
   rows |-> << Fix(1) @@ [beacon_name |-> Named(<<"A">>)],
               Fix(0) @@ [beacon_name |-> Named(<<"B">>)],
               Fix(2) @@ [beacon_name |-> Named(<<"B">>)] >>]

ExportUsblFiles == { BeaconTrack }

ExportRegions == { << 1, 2 >>, << 1, 1 >> }

ExportNames == { <<"a">>, <<"b">> }

NextExport ==
  \/ load_usbl_data(ExportUsblFiles)
  \/ load_sensor_data(RegistrySensorFiles)
  \/ toggle_brush_mode(ExportRegions)
  \/ region_dragged(ExportRegions)
  \/ update_beacon_filter
  \/ save_annotation(ExportNames, NotesInputs, MaxExportId)
  \/ select_annotation
  \/ delete_annotation
  \/ clear_annotations
  \/ export_annotated_data

SpecExport == Init /\ [][NextExport]_vars

\* SpecCollide: create and export up to identity MaxExportId where the
\* position table may be replaced by that of a file with the header only,
\* and a name may be given twice and may be the name of the datetime column
HeaderOnlyFile ==
  [readable |-> TRUE, columns |-> PositionColumns, rows |-> << >>]

CollideUsblFiles == { BeaconTrack, HeaderOnlyFile }

CollideNames == { <<"a">>, ColumnText.datetime }

NextCollide ==
  \/ load_usbl_data(CollideUsblFiles)
  \/ load_sensor_data(RegistrySensorFiles)
  \/ toggle_brush_mode(ExportRegions)
  \/ region_dragged(ExportRegions)
  \/ save_annotation(CollideNames, NotesInputs, MaxExportId)
  \/ export_annotated_data

SpecCollide == Init /\ [][NextCollide]_vars

\* SpecSkip: the script's search for the first data line, on every text
\* of at most MaxLines lines, each a comment, a line that has a '#' after
\* a blank, or a line of data
LineInputs == { <<"#", "c">>, <<" ", "#">>, <<"d">> }

RECURSIVE Texts(_)
Texts(n) ==
  IF n = 0 THEN { << >> }
  ELSE Texts(n - 1) \cup
       { Append(text, line) :
           text \in { t \in Texts(n - 1) : Len(t) = n - 1 },
           line \in LineInputs }

SensorTexts == Texts(MaxLines)

NextSkip == test_sensor_data(SensorTexts)

SpecSkip == Init /\ [][NextSkip]_vars

\* SpecProject: the projection context of every track start.  The first
\* fix of a position file ranges over the first and the last whole degree
\* of longitude of each of the 60 zones and over latitudes south of, on
\* and north of the equator; a second fix may
\* lie in the neighbouring zone; and there are the files a projection
\* fails on.
Longitudes == { lon \in -180..179 : (lon + 180) % 6 \in {0, 5} }
Latitudes == { -1, 0, 1 }

FixOf(i, lon, lat) ==
  [datetime      |-> [ok |-> TRUE, t |-> 500 * (i + 1)],
   longitude_deg |-> lon,
   latitude_deg  |-> lat]

\* tracks of one fix
TrackStarts ==
  { [readable |-> TRUE, columns |-> PositionColumns,
     rows |-> << FixOf(1, lon, lat) >>] :
      lon \in Longitudes, lat \in Latitudes }

\* tracks that cross the meridian 72 W (zones 18 and 19) or the equator
CrossingTracks ==
  { [readable |-> TRUE, columns |-> PositionColumns,
     rows |-> << FixOf(1, -73, 1), FixOf(2, -72, 1) >>],
    [readable |-> TRUE, columns |-> PositionColumns,
     rows |-> << FixOf(1, -72, 1), FixOf(2, -73, 1) >>],
    [readable |-> TRUE, columns |-> PositionColumns,
     rows |-> << FixOf(1, -73, 1), FixOf(2, -73, -1) >>],
    [readable |-> TRUE, columns |-> PositionColumns,
     rows |-> << FixOf(1, -73, -1), FixOf(2, -73, 1) >>] }

\* a file without the latitude_deg column
NoLatitudeFile ==
  [readable |-> TRUE, columns |-> {"datetime", "longitude_deg"},
   rows |-> << [datetime |-> [ok |-> TRUE, t |-> 1000],
                longitude_deg |-> -75] >>]

ProjectFiles ==
  TrackStarts \cup CrossingTracks \cup
  { HeaderOnlyFile, NoLongitudeFile, NoLatitudeFile, JunkDatetimeFile,
    UnreadableFile }

NextProject == load_usbl_data(ProjectFiles)

SpecProject == Init /\ [][NextProject]_vars

\* SpecContext: the projection context under every operation.  Two tracks
\* of two beacons, each crossing the meridian 72 W and the equator, one
\* starting in zone 18 north and one in zone 19 south.
WestToEast ==
  [readable |-> TRUE, columns |-> PositionColumns \cup {"beacon_name"},
   rows |-> << FixOf(1, -73, 1) @@ [beacon_name |-> Named(<<"A">>)],
               FixOf(2, -72, -1) @@ [beacon_name |-> Named(<<"B">>)] >>]

EastToWest ==
  [readable |-> TRUE, columns |-> PositionColumns \cup {"beacon_name"},
   rows |-> << FixOf(1, -72, -1) @@ [beacon_name |-> Named(<<"A">>)],
               FixOf(2, -73, 1) @@ [beacon_name |-> Named(<<"B">>)] >>]

ContextUsblFiles == { WestToEast, EastToWest }
ContextNames == { <<"a">> }

NextContext ==
  \/ load_usbl_data(ContextUsblFiles)
  \/ load_sensor_data(RegistrySensorFiles)
  \/ toggle_brush_mode(ExportRegions)
  \/ region_dragged(ExportRegions)
  \/ update_beacon_filter
  \/ save_annotation(ContextNames, NotesInputs, MaxCreateId)
  \/ select_annotation
  \/ delete_annotation
  \/ clear_annotations
  \/ export_annotated_data

SpecContext == Init /\ [][NextContext]_vars

(***************************************************************************)
(* Properties                                                              *)
(***************************************************************************)
\* a step in which save_annotation added an annotation
Created ==
  /\ handler' = "save_annotation"
  /\ Len(annotations') = Len(annotations) + 1

\* the annotation such a step added
Newest == annotations'[Len(annotations')]

\* a state save_annotation has just left with a new annotation: the dialog
\* was accepted and no box or exception followed
SavedNow ==
  /\ handler = "save_annotation"
  /\ dialog # None
  /\ dialog[1].accepted
  /\ feedback = ""

Largest(S) == CHOOSE x \in S : \A y \in S : y <= x

\* C1: every successful create stores an identity strictly greater than
\* every identity handed out before it, whatever creates, deletes and
\* clears came before; so no identity is handed out twice.
C1_IdentityNeverReused ==
  [][ Created => \A id \in assigned : Newest.annotation_id > id ]_vars

\* C1 witness: the third identity has just been stored after one of the two
\* earlier annotations was removed.
C1_Witness ==
  /\ SavedNow
  /\ assigned = {1, 2, 3}
  /\ Len(annotations) = 2
  /\ annotations[2].annotation_id = 3

\* C2 as stated: every successful create stores (largest identity among the
\* annotations now in the registry) + 1, and 1 when the registry is empty.
C2_MaxExistingPlusOne ==
  [][ Created =>
        Newest.annotation_id =
          IF annotations = << >> THEN 1
          ELSE Largest({ annotations[i].annotation_id :
                           i \in DOMAIN annotations }) + 1 ]_vars

\* C2 amended: every successful create stores (largest identity ever handed
\* out) + 1, and 1 when none was handed out yet.
C2_MaxAssignedPlusOne ==
  [][ Created =>
        Newest.annotation_id =
          IF assigned = {} THEN 1 ELSE Largest(assigned) + 1 ]_vars

\* C2 witness: identity 3 has just been stored into an empty registry.
C2_Witness ==
  /\ SavedNow
  /\ Len(annotations) = 1
  /\ annotations[1].annotation_id = 3

\* C3: a confirmed clear empties the list and leaves the counter as it was,
\* and the create that follows it stores (largest identity ever handed
\* out) + 1, which is not 1.
C3_ClearKeepsCounter ==
  [][ /\ ( /\ handler' = "clear_annotations"
           /\ feedback' = "Clear All Annotations? Yes" )
        => /\ annotations' = << >>
           /\ annotation_id_counter' = annotation_id_counter
      /\ ( /\ handler = "clear_annotations"
           /\ feedback = "Clear All Annotations? Yes"
           /\ Created )
        => /\ Newest.annotation_id = Largest(assigned) + 1
           /\ Newest.annotation_id # 1 ]_vars

\* C3 witness: a registry that held identities 1 and 2 has just been
\* cleared.
C3_Witness ==
  /\ handler = "clear_annotations"
  /\ feedback = "Clear All Annotations? Yes"
  /\ annotations = << >>
  /\ assigned = {1, 2}
  /\ annotation_id_counter = 3

\* a state in which save_annotation gets as far as the window: both tables
\* are loaded, the region is shown and the position table holds instants
WindowReady ==
  /\ usbl_df # None
  /\ sensor_df # None
  /\ region_2_visible
  /\ usbl_df[1].dt = "datetime64"

\* the rows of the position table whose instant lies in the window of
\* region_2, both ends included
Matching ==
  { i \in DOMAIN usbl_df[1].rows :
      /\ region_2[1] * 1000 <= usbl_df[1].rows[i].datetime
      /\ usbl_df[1].rows[i].datetime <= region_2[2] * 1000 }

\* the matching row with the smallest instant, and with the largest
Earliest ==
  CHOOSE i \in Matching :
    \A j \in Matching :
      usbl_df[1].rows[i].datetime <= usbl_df[1].rows[j].datetime
Latest ==
  CHOOSE i \in Matching :
    \A j \in Matching :
      usbl_df[1].rows[j].datetime <= usbl_df[1].rows[i].datetime

\* C4: when save_annotation runs over a window that no position record
\* matches, it shows the "no points in range" box and leaves the
\* annotation list and the identity counter as they were.
C4_EmptySelectionRejected ==
  [][ ( /\ handler' = "save_annotation"
        /\ WindowReady
        /\ Matching = {} )
      => /\ feedback' = NoPointsInRange
         /\ annotations' = annotations
         /\ annotation_id_counter' = annotation_id_counter ]_vars

\* C4 witness: the box has just been shown over a table that has rows,
\* with an annotation in the registry.
C4_Witness ==
  /\ handler = "save_annotation"
  /\ feedback = NoPointsInRange
  /\ Len(usbl_df[1].rows) > 0
  /\ Len(annotations) = 1
  /\ annotation_id_counter = 2

\* C5: when the dialog is accepted with a name that is empty or all white
\* space, save_annotation shows the "invalid name" box and leaves the
\* annotation list and the identity counter as they were.
C5_BlankNameRejected ==
  [][ ( /\ handler' = "save_annotation"
        /\ dialog' # None
        /\ dialog'[1].accepted
        /\ \A i \in DOMAIN dialog'[1].name : dialog'[1].name[i] = " " )
      => /\ feedback' = InvalidName
         /\ annotations' = annotations
         /\ annotation_id_counter' = annotation_id_counter ]_vars

\* C5 witness: a name of one space has just been rejected.
C5_Witness ==
  /\ handler = "save_annotation"
  /\ feedback = InvalidName
  /\ dialog = Some([accepted |-> TRUE, name |-> <<" ">>,
                    notes |-> <<"n", " ">>])
  /\ annotation_id_counter = 1

\* C6 as stated: a successful create stores as start and end projected
\* coordinates those of the matching record with the smallest timestamp
\* and of the one with the largest, whatever the row order of the table.
C6_EndpointsByTimestamp ==
  [][ Created =>
        /\ Newest.start_easting = usbl_df[1].rows[Earliest].easting
        /\ Newest.start_northing = usbl_df[1].rows[Earliest].northing
        /\ Newest.end_easting = usbl_df[1].rows[Latest].easting
        /\ Newest.end_northing = usbl_df[1].rows[Latest].northing ]_vars

\* C7 as stated: a successful create stores as start and end latitude and
\* longitude those of the first and last matching records, never None.
C7_GeodeticFromRecords ==
  [][ Created =>
        /\ Newest.start_lat = Some(usbl_df[1].rows[Earliest].latitude_deg)
        /\ Newest.start_lon = Some(usbl_df[1].rows[Earliest].longitude_deg)
        /\ Newest.end_lat = Some(usbl_df[1].rows[Latest].latitude_deg)
        /\ Newest.end_lon = Some(usbl_df[1].rows[Latest].longitude_deg)
    ]_vars

\* C8: a successful create stores the window's own start and end as the
\* annotation's times, and as its count the number of position records r
\* with window.start <= r.timestamp <= window.end.
C8_WindowTimesAndCount ==
  [][ Created =>
        /\ Newest.start_datetime = region_2[1] * 1000
        /\ Newest.end_datetime = region_2[2] * 1000
        /\ Newest.num_usbl_points = Cardinality(Matching) ]_vars

\* C8 witness: an annotation over the window [0 s, 2 s] has just been
\* stored with the two records at 1 s and 1.5 s in it.
C8_Witness ==
  /\ SavedNow
  /\ Len(annotations) = 1
  /\ annotations[1].start_datetime = 0
  /\ annotations[1].end_datetime = 2000
  /\ annotations[1].num_usbl_points = 2
  /\ \A i \in DOMAIN usbl_df[1].rows :
       usbl_df[1].rows[i].datetime \in {1000, 1500}

\* C9: a confirmed delete removes exactly the annotation shown on the
\* selected row and reports it in the status bar; every other annotation
\* keeps its fields and its place relative to the others; a delete that
\* removes nothing leaves the registry and the status bar alone; the
\* identity counter is unchanged either way.
C9_DeleteRemovesOnlySelected ==
  [][ handler' = "delete_annotation" =>
        /\ annotation_id_counter' = annotation_id_counter
        /\ IF feedback' = "Delete Annotation? Yes"
             THEN /\ selected_row \in DOMAIN annotations
                  /\ annotations[selected_row].annotation_id =
                       annotations_list[selected_row][1]
                  /\ Len(annotations') = Len(annotations) - 1
                  /\ \A i \in DOMAIN annotations' :
                       annotations'[i] =
                         annotations[IF i < selected_row THEN i ELSE i + 1]
                  /\ status' = "Annotation deleted"
             ELSE /\ annotations' = annotations
                  /\ status' = status ]_vars

\* C9 witness: the middle one of three annotations has just been deleted.
C9_Witness ==
  /\ handler = "delete_annotation"
  /\ feedback = "Delete Annotation? Yes"
  /\ Len(annotations) = 2
  /\ annotations[1].annotation_id = 1
  /\ annotations[2].annotation_id = 3

\* C10: in every state the registry holds its annotations in strictly
\* ascending identity order, the list widget shows one item per annotation
\* in that order, and an exported metadata table has one row per
\* annotation in that order.
C10_CreationOrder ==
  /\ \A i, j \in DOMAIN annotations :
       i < j => annotations[i].annotation_id < annotations[j].annotation_id
  /\ Len(annotations_list) = Len(annotations)
  /\ \A i \in DOMAIN annotations :
       annotations_list[i][1] = annotations[i].annotation_id
  /\ written # None =>
       /\ Len(written[1].metadata) = Len(annotations)
       /\ \A i \in DOMAIN annotations :
            written[1].metadata[i] = annotations[i]

\* C10 witness: an export has just written the metadata of the annotations
\* 1 and 3, identity 2 having been deleted.
C10_Witness ==
  /\ written # None
  /\ Len(written[1].metadata) = 2
  /\ written[1].metadata[1].annotation_id = 1
  /\ written[1].metadata[2].annotation_id = 3

\* the labels a scatter item shows
Shown(scatter) == { scatter[k] : k \in DOMAIN scatter }

\* a state on_region_changed has just left after computing the selection
\* of region_2 over the loaded position table
Recomputed ==
  /\ recomputed > 0
  /\ feedback = ""
  /\ usbl_df # None
  /\ sensor_df # None

\* the selector stands on "All Beacons", or the table has no beacon column
NoBeaconFilter ==
  \/ currentText(beacon_selector) = AllBeacons
  \/ "beacon_name" \notin usbl_df[1].columns

\* C12: with no beacon filter, the rows on_region_changed highlights are
\* exactly the position records r with window.start <= r.timestamp <=
\* window.end, both ends included; and the region_test column the script
\* adds is true for exactly the records of the position table, and of the
\* sensor table, with region_start <= r.timestamp <= region_end.
C12_InclusiveSelection ==
  /\ (Recomputed /\ NoBeaconFilter) =>
       \A i \in DOMAIN usbl_df[1].rows :
         i \in Shown(location_selection_scatter)
           <=> /\ region_2[1] * 1000 <= usbl_df[1].rows[i].datetime
               /\ usbl_df[1].rows[i].datetime <= region_2[2] * 1000
  /\ (region_test # None /\ region_test[1].region_start # None) =>
       LET region_start == region_test[1].region_start[1]
           region_end == region_test[1].region_end[1]
           exact(table) ==
             \A i \in DOMAIN table :
               table[i].region_test
                 <=> /\ region_start <= table[i].datetime
                     /\ table[i].datetime <= region_end
       IN  exact(region_test[1].usbl) /\ exact(region_test[1].sensor)

\* C12 witness: the highlight holds the record at 1 s for the window
\* [0 s, 1 s], whose end it sits on, and the script has tagged a position
\* record that sits on region_start and sensor records that sit on
\* region_start and on region_end.
C12_Witness ==
  /\ Recomputed
  /\ NoBeaconFilter
  /\ region_2 = << 0, 1 >>
  /\ \E i \in Shown(location_selection_scatter) :
       usbl_df[1].rows[i].datetime = 1000
  /\ region_test # None
  /\ region_test[1].region_start = Some(1000)
  /\ region_test[1].region_end = Some(1200)
  /\ \E i \in DOMAIN region_test[1].usbl :
       region_test[1].usbl[i] = [datetime |-> 1000, region_test |-> TRUE]
  /\ \E i \in DOMAIN region_test[1].sensor :
       region_test[1].sensor[i] = [datetime |-> 1000, region_test |-> TRUE]
  /\ \E i \in DOMAIN region_test[1].sensor :
       region_test[1].sensor[i] = [datetime |-> 1200, region_test |-> TRUE]

\* the rows of the position table inside the window of region_2
TimeMatches ==
  { i \in DOMAIN usbl_df[1].rows :
      /\ region_2[1] * 1000 <= usbl_df[1].rows[i].datetime
      /\ usbl_df[1].rows[i].datetime <= region_2[2] * 1000 }

\* the beacon the selector's current item was made for
ChosenBeacon ==
  unique(beacon_column(usbl_df[1]))[beacon_selector.currentIndex - 1]

\* C13 as stated: when on_region_changed runs with a beacon item chosen,
\* then over a position table without a beacon column it does not raise
\* and highlights exactly the time-window matches, and over a table with
\* the column it highlights exactly the time-window matches that belong to
\* the chosen beacon.
C13_BeaconFilter ==
  ( /\ recomputed > 0
    /\ usbl_df # None
    /\ sensor_df # None
    /\ currentText(beacon_selector) # AllBeacons )
  => IF "beacon_name" \notin usbl_df[1].columns
       THEN /\ feedback = ""
            /\ Shown(location_selection_scatter) = TimeMatches
     ELSE Shown(location_selection_scatter) =
            { i \in TimeMatches :
                usbl_df[1].rows[i].beacon_name = ChosenBeacon }

\* C14: the two regions hold equal bounds after every handler; a move of
\* either region (one delivery of its sigRegionChanged) runs
\* _sync_regions for that region only and on_region_changed exactly once;
\* a brush-mode toggle runs _sync_regions at most once, for the region it
\* sets first, with one on_region_changed per run; the copy into the other
\* region never runs _sync_regions for it.
C14_LinkedRegions ==
  [][ /\ region_1' = region_2'
      /\ handler' = "_sync_regions" =>
           /\ Len(synced') = 1
           /\ recomputed' = 1
      /\ handler' = "toggle_brush_mode" =>
           /\ Len(synced') <= 1
           /\ \A k \in DOMAIN synced' : synced'[k] = 1
           /\ recomputed' = Len(synced') ]_vars

\* C14 witness: region_2 has just been dragged to [1 s, 2 s] with both
\* tables loaded: region_1 follows, _sync_regions ran for region_2 alone
\* and the selection was recomputed once.
C14_Witness ==
  /\ handler = "_sync_regions"
  /\ synced = << 2 >>
  /\ recomputed = 1
  /\ region_1 = << 1, 2 >>
  /\ region_2 = << 1, 2 >>
  /\ usbl_df # None
  /\ location_selection_scatter # << >>

\* C11: across every step (create, delete, clear, selection change, filter
\* change, region move, data load, export) an annotation that stays in the
\* registry keeps every field, and every annotation of the registry after
\* the step was in it before the step or is the one a create just added.
C11_AnnotationsNeverMutated ==
  [][ /\ \A i \in DOMAIN annotations, j \in DOMAIN annotations' :
           annotations[i].annotation_id = annotations'[j].annotation_id
             => annotations'[j] = annotations[i]
      /\ \A j \in DOMAIN annotations' :
           \/ \E i \in DOMAIN annotations : annotations[i] = annotations'[j]
           \/ Created /\ j = Len(annotations') ]_vars

\* C11 witness: the first of two annotations with different windows has
\* just been deleted, and the one that stays still holds its identity 2
\* and its window [1 s, 1 s].
C11_Witness ==
  /\ handler = "delete_annotation"
  /\ feedback = "Delete Annotation? Yes"
  /\ assigned = {1, 2}
  /\ Len(annotations) = 1
  /\ annotations[1].annotation_id = 2
  /\ annotations[1].start_datetime = 1000
  /\ annotations[1].end_datetime = 1000
  /\ annotations[1].num_usbl_points = 1

\* a step in which export_annotated_data wrote both files
Exports ==
  /\ handler' = "export_annotated_data"
  /\ feedback' = ExportComplete

\* a state export_annotated_data has just left with both files written
ExportedNow ==
  /\ handler = "export_annotated_data"
  /\ feedback = ExportComplete
  /\ written # None

\* no other annotation of the registry has the name of the k-th one
UniqueName(k) ==
  \A m \in DOMAIN annotations :
    m # k => annotations[m].annotation_name # annotations[k].annotation_name

\* the rows of the position table with start <= datetime <= end of ann
Members(ann) ==
  { i \in DOMAIN usbl_df[1].rows :
      /\ ann.start_datetime <= usbl_df[1].rows[i].datetime
      /\ usbl_df[1].rows[i].datetime <= ann.end_datetime }

\* C15: in the position file an export writes, the column of every
\* annotation whose name no other annotation has holds one value per
\* position record, true exactly for the records r with annotation.start
\* <= r.timestamp <= annotation.end, whatever the selector shows and
\* whatever the other annotations are.
C15_TaggedColumns ==
  [][ Exports =>
        \A k \in DOMAIN annotations :
          UniqueName(k) =>
            LET column == written'[1].usbl[annotations[k].annotation_name]
            IN  /\ DOMAIN column = DOMAIN usbl_df[1].rows
                /\ \A i \in DOMAIN column :
                     column[i] <=> i \in Members(annotations[k]) ]_vars

\* C15 witness: with the selector on beacon A, an export has just written
\* the columns of "a" over [1 s, 2 s] and "b" over [1 s, 1 s]: the record
\* at 1 s is true in both, the record of beacon B at 1.5 s is true in "a"
\* alone, the record at 0.5 s is true in neither.
C15_Witness ==
  /\ ExportedNow
  /\ currentText(beacon_selector) = format_item(Named(<<"A">>), 1)
  /\ Len(annotations) = 2
  /\ annotations[1].annotation_name = <<"a">>
  /\ annotations[1].start_datetime = 1000
  /\ annotations[1].end_datetime = 2000
  /\ annotations[2].annotation_name = <<"b">>
  /\ annotations[2].start_datetime = 1000
  /\ annotations[2].end_datetime = 1000
  /\ written[1].usbl[ColumnText.datetime] = << 1000, 500, 1500 >>
  /\ written[1].usbl[<<"a">>] = << TRUE, FALSE, TRUE >>
  /\ written[1].usbl[<<"b">>] = << TRUE, FALSE, FALSE >>

\* C16: whenever export_annotated_data runs with no annotation in the
\* registry, it shows the "no annotations" box, writes no file and leaves
\* the status bar alone; so too when a delete or a clear has emptied a
\* registry that held annotations.
C16_EmptyRegistryRejected ==
  [][ ( /\ handler' = "export_annotated_data"
        /\ annotations = << >> )
      => /\ feedback' = NoAnnotations
         /\ written' = None
         /\ status' = status ]_vars

\* C16 witness: the box has just been shown with a position table loaded
\* and an empty registry out of which the identities 1 and 2 were removed.
C16_Witness ==
  /\ handler = "export_annotated_data"
  /\ feedback = NoAnnotations
  /\ written = None
  /\ annotations = << >>
  /\ assigned = {1, 2}
  /\ usbl_df # None
  /\ Len(usbl_df[1].rows) > 0

\* C17 as stated: whenever export_annotated_data runs, and gets past the
\* directory dialog, with annotations in the registry and a position table
\* that is absent or has no rows, it shows the "no data" box and writes no
\* file.
C17_NoDataRejected ==
  [][ ( /\ handler' = "export_annotated_data"
        /\ annotations # << >>
        /\ usbl_df = None \/ Len(usbl_df[1].rows) = 0
        /\ feedback' # "" )
      => /\ feedback' = NoUsblData
         /\ written' = None ]_vars

\* the state that refutes C17: both files have just been written from a
\* position table that has no rows
C17_ExportedWithoutRows ==
  /\ ExportedNow
  /\ Len(usbl_df[1].rows) = 0
  /\ Len(written[1].metadata) > 0

LoadedTrack == convert_to_utm(to_datetime(read_csv(BeaconTrack)))

\* the rows the exported column of the k-th annotation marks true
TrueRows(k) ==
  { i \in DOMAIN usbl_df[1].rows :
      written'[1].usbl[annotations[k].annotation_name][i] }

\* C19: a create stores as its count the number of position rows in the
\* window; and an export over the table the annotations were created
\* against marks, in the column of every annotation whose name no other
\* annotation has, as many rows true as the annotation's stored count,
\* with no false row between two true rows in timestamp order.
C19_CountMatchesColumn ==
  [][ /\ Created => Newest.num_usbl_points = Cardinality(Matching)
      /\ ( /\ Exports
           /\ usbl_df = Some(LoadedTrack) )
         => \A k \in DOMAIN annotations :
              UniqueName(k) =>
                /\ Cardinality(TrueRows(k)) = annotations[k].num_usbl_points
                /\ \A i, j \in TrueRows(k), m \in DOMAIN usbl_df[1].rows :
                     ( /\ usbl_df[1].rows[i].datetime
                            <= usbl_df[1].rows[m].datetime
                       /\ usbl_df[1].rows[m].datetime
                            <= usbl_df[1].rows[j].datetime )
                     => m \in TrueRows(k) ]_vars

\* C19 witness: "a" was created over [1 s, 2 s] with a count of 2 and the
\* export that follows has just marked the first and the third row of the
\* file, the records at 1 s and 1.5 s; the row between them in the file is
\* the record at 0.5 s.
C19_Witness ==
  /\ ExportedNow
  /\ usbl_df = Some(LoadedTrack)
  /\ Len(annotations) = 1
  /\ annotations[1].annotation_name = <<"a">>
  /\ annotations[1].start_datetime = 1000
  /\ annotations[1].end_datetime = 2000
  /\ annotations[1].num_usbl_points = 2
  /\ written[1].usbl[ColumnText.datetime] = << 1000, 500, 1500 >>
  /\ written[1].usbl[<<"a">>] = << TRUE, FALSE, TRUE >>

\* the last annotation of the registry with the name of the k-th one
LastNamed(k) ==
  CHOOSE m \in DOMAIN annotations :
    /\ annotations[m].annotation_name = annotations[k].annotation_name
    /\ \A n \in DOMAIN annotations :
         annotations[n].annotation_name = annotations[k].annotation_name
           => n <= m

\* C20 as stated: when export_annotated_data gets to writing with two
\* annotations of the same name in the registry, it completes, and the
\* position file has under that name one column, true exactly for the
\* records inside the later-created of the two.
C20_SharedNameLastWins ==
  [][ ( /\ handler' = "export_annotated_data"
        /\ written' # None
        /\ \E k, m \in DOMAIN annotations :
             /\ k # m
             /\ annotations[k].annotation_name =
                  annotations[m].annotation_name )
      => /\ feedback' = ExportComplete
         /\ \A k \in DOMAIN annotations :
              ~ UniqueName(k) =>
                \A i \in DOMAIN usbl_df[1].rows :
                  written'[1].usbl[annotations[k].annotation_name][i]
                    <=> i \in Members(annotations[LastNamed(k)]) ]_vars

\* the state that refutes C20: with two annotations named "datetime" the
\* export has just failed after writing the metadata file alone
C20_ExportFailed ==
  /\ handler = "export_annotated_data"
  /\ feedback = ExportError
  /\ written # None
  /\ Len(annotations) = 2
  /\ annotations[1].annotation_name = ColumnText.datetime
  /\ annotations[2].annotation_name = ColumnText.datetime

\* where the shared name is no column of the position table the statement
\* of C20 holds: the column holds the later annotation's membership
C20_LaterOverwrites ==
  [][ ( /\ Exports
        /\ \A k \in DOMAIN annotations :
             annotations[k].annotation_name # ColumnText.datetime )
      => \A k \in DOMAIN annotations :
           \A i \in DOMAIN usbl_df[1].rows :
             written'[1].usbl[annotations[k].annotation_name][i]
               <=> i \in Members(annotations[LastNamed(k)]) ]_vars


\* ---- C21 ----
\* the largest whole number q with 6 q <= n: floor(n / 6)
Floor6(n) == CHOOSE q \in -61..61 : 6 * q <= n /\ n < 6 * q + 6

\* a position load that ran to its end in this step
Projected ==
  /\ handler' = "load_usbl_data"
  /\ feedback' = ""
  /\ usbl_df' # None

\* C21: a load that projects a track whose first record has longitude lon
\* in [-180, 180) and latitude lat stores the zone floor((lon + 180) / 6)
\* + 1, a number from 1 to 60, and a transformer to the northern CRS of
\* that zone exactly when lat >= 0 (to the southern one otherwise)
C21_ZoneAndHemisphere ==
  [][Projected =>
       LET lon == usbl_df'[1].rows[1].longitude_deg
           lat == usbl_df'[1].rows[1].latitude_deg
           zone == Floor6(lon + 180) + 1
       IN  lon \in -180..179 =>
             /\ zone \in 1..60
             /\ utm_zone' = Some(zone)
             /\ lat >= 0 => utm_transformer' = Some(32600 + zone)
             /\ lat < 0 => utm_transformer' = Some(32700 + zone)]_vars

\* C21 witness: a track starting at 73 W on the equator is loaded and the
\* context is zone 18 north
C21_Witness ==
  /\ handler = "load_usbl_data"
  /\ feedback = ""
  /\ usbl_df # None
  /\ usbl_df[1].rows[1].longitude_deg = -73
  /\ usbl_df[1].rows[1].latitude_deg = 0
  /\ utm_zone = Some(18)
  /\ utm_transformer = Some(32618)


\* ---- C22 ----
\* the central meridian of a zone, in degrees
CentralMeridian(zone) == 6 * zone - 183

\* C22: a load that projects a track stores the zone and hemisphere of
\* the track's first record and gives every record the coordinates of
\* that one zone and hemisphere, also the records that lie in another;
\* and no step of any other operation (moving a region, brush mode, the
\* beacon filter, creating, selecting, deleting or clearing annotations,
\* exporting, loading a sensor file) changes the stored context
C22_ContextFromFirstRecord ==
  [][/\ Projected =>
          LET rows == usbl_df'[1].rows
              zone == UtmZone(rows[1].longitude_deg)
              north == rows[1].latitude_deg >= 0
          IN  /\ utm_zone' = Some(zone)
              /\ utm_transformer' =
                   Some((IF north THEN 32600 ELSE 32700) + zone)
              /\ \A i \in DOMAIN rows :
                   /\ rows[i].easting =
                        500 + 111 * (rows[i].longitude_deg
                                       - CentralMeridian(zone))
                   /\ rows[i].northing =
                        (IF north THEN 0 ELSE 10000)
                          + 111 * rows[i].latitude_deg
     /\ handler' # "load_usbl_data" =>
          /\ utm_zone' = utm_zone
          /\ utm_transformer' = utm_transformer]_vars

\* C22 witness: the track from zone 18 north into zone 19 south is loaded,
\* its second record carries zone-18 northern coordinates, and an export
\* has run since with the context still in place
C22_Witness ==
  /\ handler = "export_annotated_data"
  /\ feedback = ExportComplete
  /\ utm_zone = Some(18)
  /\ utm_transformer = Some(32618)
  /\ usbl_df # None
  /\ Len(usbl_df[1].rows) = 2
  /\ usbl_df[1].rows[2].longitude_deg = -72
  /\ usbl_df[1].rows[2].easting = 500 + 111 * 3
  /\ usbl_df[1].rows[2].northing = -111


\* ---- C23 ----
\* the table a position load left in this step was parsed and cannot be
\* projected: it has no rows, or no longitude or no latitude column
NotProjectable ==
  /\ handler' = "load_usbl_data"
  /\ usbl_df' # None
  /\ usbl_df'[1].dt = "datetime64"
  /\ \/ Len(usbl_df'[1].rows) = 0
     \/ "longitude_deg" \notin usbl_df'[1].columns
     \/ "latitude_deg" \notin usbl_df'[1].columns

C23_WitnessEmpty ==
  /\ handler = "load_usbl_data"
  /\ feedback = "Error: Failed to load USBL data"
  /\ usbl_df # None
  /\ usbl_df[1].dt = "datetime64"
  /\ usbl_df[1].rows = << >>
  /\ utm_zone = None


\* ---- C24 ----
\* the number of consecutive leading lines that start with '#'
RECURSIVE LeadingComments(_)
LeadingComments(lines) ==
  IF lines # << >> /\ Head(lines)[1] = "#"
    THEN 1 + LeadingComments(Tail(lines))
  ELSE 0

\* C24: the number of lines skipped when a sensor file is read, which is
\* the number reported, is the number of consecutive leading lines that
\* start with '#', also for a file in which every line is a comment
C24_SkipsLeadingComments ==
  sensor_test # None =>
    /\ sensor_test[1].data_start = LeadingComments(sensor_test[1].lines)
    /\ Len(sensor_test[1].parsed) =
         Len(sensor_test[1].lines) - LeadingComments(sensor_test[1].lines)

\* C24, where it holds: a file with a line that is not a comment
C24_SkipsUpToFirstDataLine ==
  (/\ sensor_test # None
   /\ \E i \in DOMAIN sensor_test[1].lines :
        Head(sensor_test[1].lines[i]) # "#") =>
    /\ sensor_test[1].data_start = LeadingComments(sensor_test[1].lines)
    /\ Len(sensor_test[1].parsed) =
         Len(sensor_test[1].lines) - LeadingComments(sensor_test[1].lines)
    /\ ~ startswith_hash(Head(sensor_test[1].parsed))

\* C24, the failing case reached: every line of a file of two lines is a
\* comment, none is skipped and a comment is parsed as the header
C24_AllCommentsNoneSkipped ==
  /\ sensor_test # None
  /\ sensor_test[1].lines = << <<"#", "c">>, <<"#", "c">> >>
  /\ sensor_test[1].data_start = 0
  /\ sensor_test[1].parsed = sensor_test[1].lines


\* ---- C25 ----
\* C25: creating an annotation ignores the beacon filter: whatever beacon
\* is chosen, the stored count is the number of records of all beacons in
\* the window, the stored start and end are those of the first and the
\* last such record of the table, and the selection is rejected as empty
\* only when no record of any beacon lies in the window
C25_CreateIgnoresBeaconFilter ==
  [][/\ Created =>
          LET first == CHOOSE i \in Matching : \A j \in Matching : i <= j
              last == CHOOSE i \in Matching : \A j \in Matching : j <= i
          IN  /\ Newest.num_usbl_points = Cardinality(Matching)
              /\ Newest.start_easting = usbl_df[1].rows[first].easting
              /\ Newest.start_northing = usbl_df[1].rows[first].northing
              /\ Newest.end_easting = usbl_df[1].rows[last].easting
              /\ Newest.end_northing = usbl_df[1].rows[last].northing
     /\ (handler' = "save_annotation" /\ feedback' = NoPointsInRange) =>
          Matching = {}]_vars

\* C25 witness: with one beacon chosen the highlight shows one point, and
\* the annotation just created over the same window stores two
C25_Witness ==
  /\ SavedNow
  /\ currentText(beacon_selector) # AllBeacons
  /\ region_2_visible
  /\ Len(location_selection_scatter) = 1
  /\ annotations # << >>
  /\ annotations[Len(annotations)].num_usbl_points = 2
  /\ annotations[Len(annotations)].start_datetime = Timestamp(region_2[1])
  /\ annotations[Len(annotations)].end_datetime = Timestamp(region_2[2])


\* ---- C26 ----
\* a position load reported a failure in this step
LoadFailed ==
  /\ handler' = "load_usbl_data"
  /\ feedback' = "Error: Failed to load USBL data"

\* C26: a position load that fails leaves the table loaded before and the
\* projection context as they were
C26_FailedLoadChangesNothing ==
  [][LoadFailed =>
       /\ usbl_df' = usbl_df
       /\ utm_zone' = utm_zone
       /\ utm_transformer' = utm_transformer]_vars

\* C26, second half: the installed table always has projected
\* coordinates, and they are those of the stored zone
C26_InstalledTableIsProjected ==
  usbl_df # None =>
    /\ {"easting", "northing"} \subseteq usbl_df[1].columns
    /\ utm_zone # None
    /\ \A i \in DOMAIN usbl_df[1].rows :
         usbl_df[1].rows[i].easting =
           500 + 111 * (usbl_df[1].rows[i].longitude_deg
                          - CentralMeridian(utm_zone[1]))

\* C26, the failing case reached: after a track of zone 18 a file without
\* latitudes was loaded; its table is installed unprojected next to the
\* zone of the track before
C26_StaleContext ==
  /\ handler = "load_usbl_data"
  /\ feedback = "Error: Failed to load USBL data"
  /\ usbl_df # None
  /\ "latitude_deg" \notin usbl_df[1].columns
  /\ "easting" \notin usbl_df[1].columns
  /\ utm_zone = Some(18)
  /\ utm_transformer = Some(32618)

\* C26, what does hold: a failed load leaves the projection context as it
\* was
C26_FailedLoadKeepsContext ==
  [][LoadFailed =>
       /\ utm_zone' = utm_zone
       /\ utm_transformer' = utm_transformer]_vars


\* ---- C27 ----
\* a sensor file with rows and a numeric channel was read in this step
WellFormedSensorLoad ==
  /\ handler' = "load_sensor_data"
  /\ sensor_df' # None
  /\ sensor_df'[1].nrows > 0
  /\ sensor_df'[1].numeric

\* C27: loading a well-formed sensor file completes without the error
\* path: no failure is reported
C27_WellFormedLoadsCleanly ==
  [][WellFormedSensorLoad => feedback' = ""]_vars

\* C27, the failing case reached: the table of a well-formed file is
\* installed and the load has reported a failure
C27_ReportedFailure ==
  /\ handler = "load_sensor_data"
  /\ sensor_df = Some([nrows |-> 2, numeric |-> TRUE])
  /\ feedback = "Error: Failed to load sensor data"


\* ---- C28 ----
\* C28: the export action is enabled exactly when the registry holds an
\* annotation
C28_ExportEnabledIffNonEmpty ==
  export_annotated_btn <=> Len(annotations) > 0

\* C28 witness: a delete has emptied a registry that held an annotation,
\* and the export action is disabled again
C28_Witness ==
  /\ handler = "delete_annotation"
  /\ feedback = "Delete Annotation? Yes"
  /\ assigned # {}
  /\ annotations = << >>
  /\ ~ export_annotated_btn

\* ---- C29 ----
\* the identities held by a registry
Ids(anns) == { anns[i].annotation_id : i \in DOMAIN anns }

\* C29: after every create, delete and clear the displayed list has one
\* item per annotation of the registry, in the registry's order; the
\* selected row is always a row of the registry (or none); and the
\* annotation a delete removes is the one displayed in the selected row
C29_ListMirrorsRegistry ==
  [][/\ handler' \in {"save_annotation", "delete_annotation",
                       "clear_annotations"} =>
          /\ Len(annotations_list') = Len(annotations')
          /\ \A i \in DOMAIN annotations' :
               annotations_list'[i] =
                 << annotations'[i].annotation_id,
                    annotations'[i].annotation_name,
                    annotations'[i].num_usbl_points >>
     /\ selected_row' \in 0..Len(annotations')
     /\ (handler' = "delete_annotation"
           /\ feedback' = "Delete Annotation? Yes") =>
          /\ selected_row \in DOMAIN annotations_list
          /\ Ids(annotations) \ Ids(annotations') =
               { annotations_list[selected_row][1] }]_vars

\* C29 witness: of two annotations the first was deleted, and the list
\* shows the second alone
C29_Witness ==
  /\ handler = "delete_annotation"
  /\ feedback = "Delete Annotation? Yes"
  /\ Len(annotations) = 1
  /\ annotations[1].annotation_id = 2
  /\ Len(annotations_list) = 1
  /\ annotations_list[1][1] = 2
  /\ selected_row = 0


\* ---- C30 ----
\* C30: the two region windows are both visible or both hidden, and
\* visible only while brush mode is on; save_annotation changes the
\* registry only when both tables are loaded and the region is visible;
\* and turning brush mode off hides both regions and clears the highlight
C30_BrushModeGating ==
  [][/\ region_1_visible' = region_2_visible'
     /\ region_2_visible' => brush_mode_btn'
     /\ (handler' = "save_annotation" /\ annotations' # annotations) =>
          /\ usbl_df # None
          /\ sensor_df # None
          /\ region_1_visible /\ region_2_visible
     /\ (handler' = "toggle_brush_mode" /\ ~ brush_mode_btn') =>
          /\ brush_mode_btn
          /\ ~ region_1_visible' /\ ~ region_2_visible'
          /\ location_selection_scatter' = << >>]_vars

\* C30 witness: brush mode was turned off with points highlighted in a
\* visible region, after an annotation was saved from it: the regions are
\* hidden and the highlight is gone
C30_Witness ==
  /\ handler = "toggle_brush_mode"
  /\ status = "Brush selection disabled"
  /\ ~ brush_mode_btn
  /\ ~ save_annotation_btn
  /\ ~ region_1_visible /\ ~ region_2_visible
  /\ location_selection_scatter = << >>
  /\ usbl_df # None /\ sensor_df # None
  /\ annotations # << >>
  /\ Cardinality(Matching) = 2

====
